---- MODULE Spec2Model ----
(***************************************************************************)
(* A model of the agent-based market simulator: the limit order book      *)
(* (LimitOrderBook in LimitOrderBookVeryVolatile.cpp, the "rich" engine,  *)
(* and LimitOrderBookMostVolatile.cpp, the "lite" engine), the command    *)
(* poll of EngineInterface.hpp and the tick loops of the two main()s.     *)
(*                                                                         *)
(* Prices are doubles in the code.  The model counts a price in half      *)
(* price steps, and every price that enters the book is an even number,   *)
(* so that 0.5 * (ask + bid) of get_mid is exact.  Quantities are         *)
(* uint32_t in the code; the model keeps the unsigned wrap-around with a  *)
(* narrower word of QtyBits bits.                                         *)
(***************************************************************************)
EXTENDS Integers, Sequences, FiniteSets, TLC

\* ------------------------------------------------------------------ bounds
MaxOrders == 4
MaxTicks == 1
QtyBits == 2
MaxCmds == 3
MaxLoopOrders == 2
MaxLoopTicks == 10
MaxCtlCmds == 3
MaxPauseCmds == 4
MaxClassCmds == 2
MaxUserCmds == 3
MaxFloorCmds == 3
MaxBadCmds == 2
MaxScenCmds == 3
MaxFundTicks == 3

\* --------------------------------------------------------------- constants
dt == 60
SeedPrice == 200
BroadcastEvery == 10

\* enum class MarketScenario
NORMAL == 0
PUMP_DUMP == 1
SHORT_SQUEEZE == 2
Scenarios == {NORMAL, PUMP_DUMP, SHORT_SQUEEZE}

UINT32_MOD == 2 ^ QtyBits
UINT32_MAX == UINT32_MOD - 1

Sides == {"BUY", "SELL"}
Prices == {198, 200}
Quantities == {1, UINT32_MAX}
Fallbacks == {SeedPrice}
Variants == {"rich", "lite"}

\* if (p < 0.01) p = 0.01: the least price of the model's scale that is
\* not below 0.01.
MinPrice == 1

VARIABLES
    variant,            \* which engine the binary is: "rich" or "lite"
    active_orders,      \* LimitOrderBook::active_orders: id -> Order
    askHeap,            \* LimitOrderBook::askHeap, the entries it holds
    bidHeap,            \* LimitOrderBook::bidHeap
    last_traded_price,  \* the price of the last fill: main's price in the rich
                        \* engine, book.last_traded_price in the lite engine
    time,               \* main: double time
    oid,                \* main: uint64_t oid, the next order id
    lastOp,             \* the book operation called last
    lastOrder,          \* the Order handed to the last add_order
    fills,              \* the fills of the last add_order, in order
    ret,                \* what the last call returned
    decayed,            \* ids that decay has erased from active_orders
    submitted,          \* per side, the quantity handed to add_order so far
    executed,           \* per side, the quantity its orders have lost to fills
    traded,             \* the quantity of all Trades returned so far
    pc,                 \* where main is: "start", "poll", "user", "agents", "done"
    chan,               \* command_sub: the messages sent and not yet received
    sent,               \* how many commands the controller has sent
    is_paused,          \* EngineInterface::is_paused
    scenario_signal,    \* checkCommands: int scenario_signal
    user_orders,        \* main: std::vector<UserOrder> user_orders; held tells
                        \* whether the engine was paused when it was pushed
    config,             \* main: SimConfig config
    current_scen,       \* main: current_scen, as the int it was cast from
    tick_count,         \* main: int tick_count
    agent,              \* the agent that acts next in this tick, 1..NumAgents
    mid,                \* main: double mid (ref_price in the lite engine)
    frames,             \* the frames published so far, in order
    stopRead,           \* a poll has read a STOP command
    tick_volume,        \* main: uint32_t tick_volume of this iteration
    stats,              \* main: s_fund, s_mom, s_make, s_noise, s_user
    short_interest,     \* main: long short_interest (rich engine)
    owner,              \* owner[id]: the class that submitted order id
    window_volume,      \* the quantity of all fills since the last DATA frame
    class_fills,        \* per class, the quantity of all fills of its orders
    acted,              \* who has acted in this iteration, in order
    discarded,          \* how many messages waitForStart has thrown away
    peak_price,         \* Agent::peak_price, the static of the rich engine
    true_value,         \* main: double true_value
    current_scenario,   \* current_scenario[i]: Agent::current_scenario of the
                        \* i-th agent (rich engine), as an int
    belief_noise,       \* FundamentalTrader::belief_noise, in percent
    next_act_time,      \* FundamentalTrader::next_act_time
    returned            \* what the last act_with_market returned

bookVars == <<active_orders, askHeap, bidHeap, last_traded_price>>
histVars == <<lastOp, lastOrder, fills, ret, decayed>>
tapeVars == <<submitted, executed, traded>>
statVars == <<tick_volume, stats, short_interest>>
ghostVars == <<owner, window_volume, class_fills, acted, discarded>>
loopVars == <<pc, chan, sent, is_paused, scenario_signal, user_orders, config,
              current_scen, tick_count, agent, mid, frames, stopRead,
              statVars, ghostVars>>
scenVars == <<peak_price, true_value, current_scenario>>
fundVars == <<belief_noise, next_act_time, returned>>
vars == <<variant, bookVars, time, oid, histVars, tapeVars, loopVars,
          scenVars, fundVars>>

\* ------------------------------------------------------------------- types
Order(id, timestamp, price, quantity, side) ==
    [id |-> id, timestamp |-> timestamp, price |-> price,
     quantity |-> quantity, side |-> side]

Trade(price, quantity, timestamp) ==
    [price |-> price, quantity |-> quantity, timestamp |-> timestamp]

NoOrder == Order(0, 0, 0, 0, "NONE")

Min(a, b) == IF a < b THEN a ELSE b

\* ------------------------------------------------------------- comparators
\* askComp(a, b): a is below b in the ask heap (b is served first).
askComp(a, b) ==
    IF a.price # b.price THEN a.price > b.price ELSE a.timestamp > b.timestamp

bidCompLifo(a, b) ==
    IF a.price # b.price THEN a.price < b.price ELSE a.timestamp < b.timestamp

bidComp(a, b) ==
    IF a.price # b.price THEN a.price < b.price ELSE a.timestamp > b.timestamp

\* std::priority_queue::top(): an entry no other entry is above.  Entries
\* that tie in price and timestamp are served in an order the heap's
\* layout decides, so every one of them is a possible top.
askTop(heap) == {e \in heap : \A x \in heap : ~askComp(e, x)}
bidTop(heap) == {e \in heap : \A x \in heap : ~bidComp(e, x)}

\* ---------------------------------------------------------------- add_order
\* The state of one add_order call: the active set, the contra heap it
\* walks, the incoming order's remaining quantity, last_traded_price and
\* the fills so far.  A fill keeps the Trade the code appends and what the
\* loop read when it made it: best (the heap top), active (the active set
\* before the fill) and incoming (order.quantity before the fill).

\* best.price < order.price / best.price > order.price: the loop's break.
CrossesFlipped(order, best) ==
    IF order.side = "SELL" THEN best.price <= order.price
                           ELSE best.price >= order.price

Crosses(order, best) ==
    IF order.side = "SELL" THEN ~(best.price < order.price)
                           ELSE ~(best.price > order.price)

\* trades.push_back({best.price, qty, order.timestamp})
MakeTradeAtLimit(order, best, qty) == Trade(order.price, qty, order.timestamp)

MakeTrade(order, best, qty) == Trade(best.price, qty, order.timestamp)

\* active_orders[id] = order: insert or assign.
Put(active, order) ==
    [i \in DOMAIN active \cup {order.id} |->
        IF i = order.id THEN order ELSE active[i]]

\* best.quantity > qty: Order updated = best; updated.quantity -= qty;
\* active_orders[best.id] = updated; heap.pop(); heap.push(updated);
\* The reduced entry pushed without popping the old one.
PartialFillNoPop(s, best, qty) ==
    LET updated == [best EXCEPT !.quantity = best.quantity - qty]
    IN  [s EXCEPT !.active = Put(@, updated), !.heap = @ \cup {updated}]

PartialFillNoDecrement(s, best, qty) ==
    [s EXCEPT !.active = Put(@, best), !.heap = (@ \ {best}) \cup {best}]

PartialFill(s, best, qty) ==
    LET updated == [best EXCEPT !.quantity = best.quantity - qty]
    IN  [s EXCEPT !.active = Put(@, updated),
                  !.heap = (@ \ {best}) \cup {updated}]

\* else: active_orders.erase(best.id); heap.pop();
FullFill(s, best) ==
    [s EXCEPT !.active = [i \in DOMAIN @ \ {best.id} |-> @[i]],
              !.heap = @ \ {best}]

\* !active_orders.count(heap.top().id): the entry's order is no longer live.
IsStaleNever(active, e) == FALSE

IsStale(active, e) == e.id \notin DOMAIN active

ContraTop(order, heap) ==
    IF order.side = "SELL" THEN bidTop(heap) ELSE askTop(heap)

RECURSIVE MatchLoop(_, _)
\* One iteration of the while loop with `best` on top of the contra heap.
MatchTop(order, s, best) ==
    IF IsStale(s.active, best)
    THEN MatchLoop(order, [s EXCEPT !.heap = @ \ {best}])
    ELSE IF ~Crosses(order, best)
    THEN {s}
    ELSE LET qty == Min(best.quantity, s.quantity)
             fill == [trade |-> MakeTrade(order, best, qty), best |-> best,
                      active |-> s.active, incoming |-> s.quantity]
             t == IF best.quantity > qty THEN PartialFill(s, best, qty)
                                         ELSE FullFill(s, best)
         IN  MatchLoop(order,
                 [t EXCEPT !.quantity = s.quantity - qty,
                           !.fills = Append(@, fill),
                           !.last_traded_price = best.price])

\* while (order.quantity > 0 && !heap.empty()): every final state.
MatchLoop(order, s) ==
    IF ~(s.quantity > 0 /\ s.heap # {})
    THEN {s}
    ELSE UNION {MatchTop(order, s, best) : best \in ContraTop(order, s.heap)}

\* if (order.quantity > 0) { active_orders[order.id] = order; heap.push(order); }
RestNoPush(s, order, own) ==
    LET rest == [order EXCEPT !.quantity = s.quantity]
    IN  IF s.quantity > 0
        THEN [active |-> Put(s.active, rest), own |-> own]
        ELSE [active |-> s.active, own |-> own]

Rest(s, order, own) ==
    LET rest == [order EXCEPT !.quantity = s.quantity]
    IN  IF s.quantity > 0
        THEN [active |-> Put(s.active, rest), own |-> own \cup {rest}]
        ELSE [active |-> s.active, own |-> own]

\* LimitOrderBook::add_order(order): every book it can leave, with the
\* fills it returns and the incoming order's residual quantity.
add_order(order) ==
    LET sell == order.side = "SELL"
        start == [active |-> active_orders,
                  heap |-> IF sell THEN bidHeap ELSE askHeap,
                  quantity |-> order.quantity,
                  last_traded_price |-> last_traded_price,
                  fills |-> <<>>]
    IN  {LET r == Rest(s, order, IF sell THEN askHeap ELSE bidHeap)
         IN  [active_orders |-> r.active,
              askHeap |-> IF sell THEN r.own ELSE s.heap,
              bidHeap |-> IF sell THEN s.heap ELSE r.own,
              last_traded_price |-> s.last_traded_price,
              fills |-> s.fills,
              quantity |-> s.quantity] : s \in MatchLoop(order, start)}

\* -------------------------------------------------------------------- decay
\* LimitOrderBook::decay: every id whose draw fell under `percentage` is
\* erased from active_orders; the heaps are not touched.
decay(to_delete) ==
    [i \in DOMAIN active_orders \ to_delete |-> active_orders[i]]

\* ------------------------------------------------------------------ get_mid
\* The values get_mid(fallback) can return (rich engine).
get_mid(fallback) ==
    IF askHeap = {} \/ bidHeap = {}
    THEN {fallback}
    ELSE {(a.price + b.price) \div 2 :
            a \in askTop(askHeap), b \in bidTop(bidHeap)}

\* -------------------------------------------------------------- clean_heaps
\* while (!heap.empty() && !active_orders.count(heap.top().id)) heap.pop();
\* the heap it leaves and the top it stopped at (NoOrder when empty).
RECURSIVE cleanAsk(_, _)
cleanAsk(active, heap) ==
    IF heap = {}
    THEN {[heap |-> heap, top |-> NoOrder]}
    ELSE UNION {IF IsStale(active, t)
                THEN cleanAsk(active, heap \ {t})
                ELSE {[heap |-> heap, top |-> t]} : t \in askTop(heap)}

RECURSIVE cleanBid(_, _)
cleanBid(active, heap) ==
    IF heap = {}
    THEN {[heap |-> heap, top |-> NoOrder]}
    ELSE UNION {IF IsStale(active, t)
                THEN cleanBid(active, heap \ {t})
                ELSE {[heap |-> heap, top |-> t]} : t \in bidTop(heap)}

\* -------------------------------------------------------------- get_metrics
\* long liquidity = askHeap.top().quantity + bidHeap.top().quantity: the sum
\* of two uint32_t is a uint32_t, widened to long after it has wrapped.
Liquidity(a, b) == (a.quantity + b.quantity) % UINT32_MOD

\* LimitOrderBook::get_metrics (rich engine): the heaps clean_heaps leaves,
\* the pair returned and the two tops read.
MetricsOf(active, asks, bids) ==
    {[askHeap |-> ca.heap, bidHeap |-> cb.heap, ask |-> ca.top, bid |-> cb.top,
      spread |-> IF ca.heap # {} /\ cb.heap # {}
                 THEN ca.top.price - cb.top.price ELSE 0,
      liquidity |-> IF ca.heap # {} /\ cb.heap # {}
                    THEN Liquidity(ca.top, cb.top) ELSE 0] :
        ca \in cleanAsk(active, asks), cb \in cleanBid(active, bids)}

get_metrics == MetricsOf(active_orders, askHeap, bidHeap)

\* --------------------------------------------------------------- the record
RECURSIVE SumQty(_, _)
SumQty(active, ids) ==
    IF ids = {} THEN 0
    ELSE LET i == CHOOSE x \in ids : TRUE
         IN  active[i].quantity + SumQty(active, ids \ {i})

\* The remaining quantity of the live orders of one side.
LiveQty(active, side) ==
    SumQty(active, {i \in DOMAIN active : active[i].side = side})

Contra(side) == IF side = "BUY" THEN "SELL" ELSE "BUY"

\* What a call returned: add_order's residual order.quantity (its Trades
\* are in fills), get_mid's value for its fallback, get_metrics' pair and
\* the two heap tops it read.
NoRet == [residual |-> 0, mid |-> 0, fallback |-> 0, spread |-> 0,
          liquidity |-> 0, ask |-> NoOrder, bid |-> NoOrder]

\* ------------------------------------------------------ the book, call by call
\* EngineInterface::EngineInterface and the locals of main before the loop.
Classes == {"fund", "mom", "make", "noise", "user"}

\* struct AgentStats { long buy_vol = 0; long sell_vol = 0; }
AgentStats == [buy_vol |-> 0, sell_vol |-> 0]

LoopInit ==
    /\ tick_volume = 0
    /\ stats = [c \in Classes |-> AgentStats]
    /\ short_interest = 0
    /\ owner = <<>>
    /\ window_volume = 0
    /\ class_fills = [c \in Classes |-> 0]
    /\ acted = <<>>
    /\ discarded = 0
    /\ pc = "start"
    /\ chan = <<>>
    /\ sent = 0
    /\ is_paused = FALSE
    /\ scenario_signal = -1
    /\ user_orders = <<>>
    /\ config = <<0, 0, 0, 0>>
    /\ current_scen = 0
    /\ tick_count = 0
    /\ agent = 0
    /\ mid = SeedPrice
    /\ frames = <<>>
    /\ stopRead = FALSE
    /\ true_value = SeedPrice
    /\ current_scenario = <<>>
    /\ belief_noise = 100
    /\ next_act_time = 0
    /\ returned = NoOrder

BookInit ==
    /\ variant \in Variants
    /\ active_orders = << >>
    /\ askHeap = {}
    /\ bidHeap = {}
    /\ last_traded_price = SeedPrice
    /\ time = 0
    /\ oid = 1
    /\ lastOp = "none"
    /\ lastOrder = NoOrder
    /\ fills = <<>>
    /\ ret = NoRet
    /\ decayed = {}
    /\ submitted = [s \in Sides |-> 0]
    /\ executed = [s \in Sides |-> 0]
    /\ traded = 0
    /\ peak_price = IF variant = "rich" THEN SeedPrice ELSE 0
    /\ LoopInit

\* book.add_order(order), and what the record keeps of the call.
Submit(order, r) ==
    /\ active_orders' = r.active_orders
    /\ askHeap' = r.askHeap
    /\ bidHeap' = r.bidHeap
    /\ last_traded_price' = r.last_traded_price
    /\ lastOp' = "add_order"
    /\ lastOrder' = order
    /\ fills' = r.fills
    /\ ret' = [NoRet EXCEPT !.residual = r.quantity]

\* book.add_order(Order{oid++, time, price, quantity, side})
AddOrder ==
    /\ oid <= MaxOrders
    /\ \E side \in Sides, price \in Prices, quantity \in Quantities :
         LET order == Order(oid, time, price, quantity, side)
         IN  \E r \in add_order(order) : Submit(order, r)
    /\ oid' = oid + 1
    /\ UNCHANGED <<scenVars, fundVars, variant, time, decayed, tapeVars, loopVars>>

\* The same call with the tape kept: what was submitted, what each side's
\* orders lost (the incoming order's quantity, the live resting orders'
\* quantities) and what the returned Trades add up to.
RECURSIVE TradedQty(_)
TradedQty(fs) ==
    IF fs = <<>> THEN 0 ELSE Head(fs).trade.quantity + TradedQty(Tail(fs))

AddOrderTaped ==
    /\ oid <= MaxOrders
    /\ \E side \in Sides, price \in Prices, quantity \in Quantities :
         LET order == Order(oid, time, price, quantity, side)
         IN  \E r \in add_order(order) :
               /\ Submit(order, r)
               /\ submitted' = [submitted EXCEPT ![side] = @ + quantity]
               /\ executed' =
                    [executed EXCEPT
                       ![side] = @ + (quantity - r.quantity),
                       ![Contra(side)] =
                           @ + (LiveQty(active_orders, Contra(side))
                                - LiveQty(r.active_orders, Contra(side)))]
               /\ traded' = traded + TradedQty(r.fills)
    /\ oid' = oid + 1
    /\ UNCHANGED <<scenVars, fundVars, variant, time, decayed, loopVars>>

\* book.decay(0.05, gen)
Decay ==
    /\ \E to_delete \in SUBSET DOMAIN active_orders :
         /\ active_orders' = decay(to_delete)
         /\ decayed' = decayed \cup to_delete
    /\ lastOp' = "decay"
    /\ lastOrder' = NoOrder
    /\ fills' = <<>>
    /\ ret' = NoRet
    /\ UNCHANGED <<scenVars, fundVars, variant, askHeap, bidHeap, last_traded_price, time, oid,
                   tapeVars, loopVars>>

\* book.get_mid(fallback)
GetMid ==
    /\ variant = "rich"
    /\ \E fallback \in Fallbacks :
         \E m \in get_mid(fallback) :
           ret' = [NoRet EXCEPT !.mid = m, !.fallback = fallback]
    /\ lastOp' = "get_mid"
    /\ lastOrder' = NoOrder
    /\ fills' = <<>>
    /\ UNCHANGED <<scenVars, fundVars, variant, bookVars, time, oid, decayed, tapeVars, loopVars>>

\* book.get_metrics()
GetMetrics ==
    /\ variant = "rich"
    /\ \E m \in get_metrics :
         /\ askHeap' = m.askHeap
         /\ bidHeap' = m.bidHeap
         /\ ret' = [NoRet EXCEPT !.spread = m.spread, !.liquidity = m.liquidity,
                                 !.ask = m.ask, !.bid = m.bid]
    /\ lastOp' = "get_metrics"
    /\ lastOrder' = NoOrder
    /\ fills' = <<>>
    /\ UNCHANGED <<scenVars, fundVars, variant, active_orders, last_traded_price, time, oid,
                   decayed, tapeVars, loopVars>>

\* time += dt
AdvanceTime ==
    /\ time < MaxTicks * dt
    /\ time' = time + dt
    /\ UNCHANGED <<scenVars, fundVars, variant, bookVars, oid, histVars, tapeVars, loopVars>>

\* Any sequence of calls on the book.
BookNext == AddOrder \/ Decay \/ GetMid \/ GetMetrics \/ AdvanceTime

SpecBook == BookInit /\ [][BookNext]_vars

\* Any sequence of add_order calls, without decay.
TapeNext == AddOrderTaped \/ AdvanceTime

SpecTape == BookInit /\ [][TapeNext]_vars

\* ------------------------------------------------------------ the tick loop
\* The commands the controller publishes.  An ORDER carries side (0 = BUY),
\* quantity and price; a START the four agent counts; a SCENARIO its int.
Configs == {<<1, 0, 0, 0>>}
ScenarioArgs == {0, 1}
UserQuantities == {1}
AgentQuantities == {1}

\* form tells how the arguments of a SCENARIO or an ORDER read: "ok"
\* (numbers), "text" (the first is not a number) or "missing".
Cmd(cmd, type, side, quantity, price, cfg) ==
    [cmd |-> cmd, type |-> type, side |-> side, quantity |-> quantity,
     price |-> price, config |-> cfg, form |-> "ok"]

Malformed(cmd, form) ==
    [Cmd(cmd, 0, 0, 0, 0, <<0, 0, 0, 0>>) EXCEPT !.form = form]

\* The values an int that was never assigned may hold.
IndeterminateInts == {-2, -1, 0}

\* int type; ss >> type: the argument when it is a number; 0 when it is
\* not a number (the failed extraction stores 0); when it is missing the
\* stream is at its end, nothing is stored and type is read uninitialised.
ParsedInt(msg) ==
    IF msg.form = "ok" THEN {msg.type}
    ELSE IF msg.form = "text" THEN {0}
    ELSE IndeterminateInts

\* The values a double that was never assigned may hold.
IndeterminatePrices == {0, SeedPrice}

\* int side, qty; double price; ss >> side >> qty >> price: the three
\* fields when they are numbers.  When the first is not a number its
\* failed extraction stores 0 in side and the stream has failed, so qty
\* and price are never assigned; when the fields are missing none of the
\* three is assigned.  The order is pushed in every case.
ParsedOrder(msg) ==
    IF msg.form = "ok"
    THEN {[side |-> msg.side, quantity |-> msg.quantity, price |-> msg.price]}
    ELSE [side : IF msg.form = "text" THEN {0} ELSE {0, 1},
          quantity : IndeterminateInts,
          price : IndeterminatePrices]

Commands ==
    {Cmd("START", 0, 0, 0, 0, c) : c \in Configs}
    \cup {Cmd(c, 0, 0, 0, 0, <<0, 0, 0, 0>>) : c \in {"STOP", "PAUSE", "RESUME"}}
    \cup {Cmd("SCENARIO", t, 0, 0, 0, <<0, 0, 0, 0>>) : t \in ScenarioArgs}
    \cup {Cmd("ORDER", 0, sd, q, p, <<0, 0, 0, 0>>) :
            sd \in {0, 1}, q \in UserQuantities, p \in Prices}

\* (uint32_t)u.quantity
ToUint32(n) == n % UINT32_MOD

\* config is <<num_makers, num_fundamental, num_momentum, num_noise>>: how
\* many agents act in a tick.
NumAgents == config[1] + config[2] + config[3] + config[4]

\* The controller publishes a command.  The engine sees the channel only
\* when it receives, so a command is sent when the engine is about to
\* receive, one at a time.
SendFrom(cmds, budget) ==
    /\ pc \in {"start", "poll"}
    /\ tick_count < MaxLoopTicks
    /\ chan = <<>>
    /\ sent < budget
    /\ \E c \in cmds : chan' = Append(chan, c)
    /\ sent' = sent + 1
    /\ UNCHANGED <<scenVars, fundVars, variant, bookVars, time, oid, histVars, tapeVars, pc,
                   is_paused, scenario_signal, user_orders, config,
                   current_scen, tick_count, agent, mid, frames, stopRead,
                   statVars, ghostVars>>

Send == SendFrom(Commands, MaxCmds)

\* The agents main builds after waitForStart, each with its scenario tag
\* (MarketScenario current_scenario = MarketScenario::NORMAL); the agents
\* of the lite engine have no tag.
Agents(v, cfg) ==
    IF v = "rich"
    THEN [i \in 1..(cfg[1] + cfg[2] + cfg[3] + cfg[4]) |-> NORMAL]
    ELSE <<>>

\* EngineInterface::waitForStart: one received message.  Anything but START
\* is discarded; START gives the agent counts and clears is_paused.
StartsEngineAlways(msg) == TRUE

\* if (cmd == "START")
StartsEngine(msg) == msg.cmd = "START"

WaitForStart ==
    /\ pc = "start"
    /\ chan # <<>>
    /\ chan' = Tail(chan)
    /\ IF StartsEngine(Head(chan))
       THEN /\ config' = Head(chan).config
            /\ is_paused' = FALSE
            /\ pc' = "poll"
            /\ current_scenario' = Agents(variant, Head(chan).config)
            /\ UNCHANGED discarded
       ELSE /\ discarded' = discarded + 1
            /\ UNCHANGED <<config, is_paused, pc, current_scenario>>
    /\ UNCHANGED <<peak_price, true_value, fundVars, variant, bookVars, time, oid, histVars, tapeVars, sent,
                   scenario_signal, user_orders, current_scen, tick_count,
                   agent, mid, frames, stopRead, statVars, owner,
                   window_volume, class_fills, acted>>

\* The loop's test of checkCommands' result: the rich engine leaves on -2
\* (if (status == -2) break), the lite engine on 0
\* (if (!engine.checkCommands(user_orders)) break).
LoopExitsOnZero(status) == status = 0

LoopExitsNever(status) == FALSE

LoopExitsOnStop(status) == status = -2

LoopExits(status) ==
    IF variant = "rich" THEN LoopExitsOnStop(status) ELSE LoopExitsOnZero(status)

\* for (auto& a : ...) a.set_scenario(s), over all agents: each agent's tag
\* becomes s, and each call with s != PUMP_DUMP clears the shared peak.
set_scenario(tags, peak, s) ==
    [current_scenario |-> [i \in DOMAIN tags |-> s],
     peak_price |-> IF tags # <<>> /\ s # PUMP_DUMP THEN 0 ELSE peak]

\* checkCommands returns `status` to main: the loop ends, or the tick
\* starts; the rich engine takes a status >= 0 as the new scenario and
\* hands it to every agent.
Return(status) ==
    /\ pc' = IF LoopExits(status) THEN "done" ELSE "user"
    /\ IF variant = "rich" /\ ~LoopExits(status) /\ status >= 0
       THEN /\ current_scen' = status
            /\ current_scenario' = set_scenario(current_scenario, peak_price,
                                                status).current_scenario
            /\ peak_price' = set_scenario(current_scenario, peak_price,
                                          status).peak_price
       ELSE UNCHANGED <<current_scen, current_scenario, peak_price>>

\* EngineInterface::checkCommands: one received message.
Recv ==
    /\ pc = "poll"
    /\ tick_count < MaxLoopTicks
    /\ chan # <<>>
    /\ chan' = Tail(chan)
    /\ LET msg == Head(chan)
       IN  IF msg.cmd = "STOP"
           THEN /\ stopRead' = TRUE
                /\ Return(-2)
                /\ UNCHANGED <<is_paused, scenario_signal, user_orders>>
           ELSE /\ is_paused' = IF msg.cmd = "PAUSE" THEN TRUE
                                ELSE IF msg.cmd = "RESUME" THEN FALSE
                                ELSE is_paused
                /\ scenario_signal' \in IF msg.cmd = "SCENARIO"
                                         THEN ParsedInt(msg)
                                         ELSE {scenario_signal}
                /\ user_orders' \in
                     IF msg.cmd = "ORDER"
                     THEN {Append(user_orders,
                                  [is_buy |-> u.side = 0,
                                   quantity |-> u.quantity,
                                   price |-> u.price,
                                   held |-> is_paused]) :
                             u \in ParsedOrder(msg)}
                     ELSE {user_orders}
                /\ UNCHANGED <<pc, current_scen, stopRead, current_scenario,
                               peak_price>>
    /\ UNCHANGED <<true_value, fundVars, variant, bookVars, time, oid, histVars, tapeVars, sent,
                   config, tick_count, agent, mid, frames, statVars, ghostVars>>

\* checkCommands: nothing to receive and not paused: return scenario_signal.
\* (Paused, it sleeps and receives again: no step.)
SleepsNever(paused) == FALSE

\* if (is_paused) { sleep_for(50ms); continue; }
Sleeps(paused) == paused

PollEmpty ==
    /\ pc = "poll"
    /\ tick_count < MaxLoopTicks
    /\ chan = <<>>
    /\ ~Sleeps(is_paused)
    /\ Return(scenario_signal)
    /\ UNCHANGED <<true_value, fundVars, variant, bookVars, time, oid, histVars, tapeVars, chan,
                   sent, is_paused, scenario_signal, user_orders, config,
                   tick_count, agent, mid, frames, stopRead, statVars,
                   ghostVars>>

Frame(kind, a, b) == [kind |-> kind, a |-> a, b |-> b]

\* A uint32_t handed to an int parameter (AgentStats::add's qty,
\* broadcastTrade's qty): the same bits read as a signed number.
ToInt32(n) == IF n >= UINT32_MOD \div 2 THEN n - UINT32_MOD ELSE n

\* broadcastTrade(tag, is_buy, qty, price): price is total_val / filled_qty,
\* kept as the pair <<total_val, filled_qty>>.
TradeFrame(tag, is_buy, filled_qty, total_val) ==
    [kind |-> "TRADE", agent |-> tag, a |-> is_buy, b |-> ToInt32(filled_qty),
     price |-> <<total_val, filled_qty>>]

\* total_val += t.quantity * t.price over the returned trades.
RECURSIVE TradedValue(_)
TradedValue(fs) ==
    IF fs = <<>> THEN 0
    ELSE Head(fs).trade.quantity * Head(fs).trade.price + TradedValue(Tail(fs))

\* stats.add(is_buy, t.quantity) over the returned trades: what the
\* accumulator of the submitting class gains.
RECURSIVE AddedVol(_)
AddedVol(fs) ==
    IF fs = <<>> THEN 0
    ELSE ToInt32(Head(fs).trade.quantity) + AddedVol(Tail(fs))

\* The quantity the resting orders of class c have lost to these fills.
RECURSIVE RestingFilled(_, _, _)
RestingFilled(fs, own, c) ==
    IF fs = <<>> THEN 0
    ELSE (IF own[Head(fs).best.id] = c THEN Head(fs).trade.quantity ELSE 0)
         + RestingFilled(Tail(fs), own, c)

StatsAddNothing(st, c, is_buy, fs) == st

\* AgentStats::add on the accumulator of class c, once per trade.
StatsAdd(st, c, is_buy, fs) ==
    IF is_buy
    THEN [st EXCEPT ![c].buy_vol = @ + AddedVol(fs)]
    ELSE [st EXCEPT ![c].sell_vol = @ + AddedVol(fs)]

ShortInterestOfAnyClass(si, c, side, fs) ==
    IF side = "SELL" THEN si + TradedQty(fs) ELSE si - TradedQty(fs)

\* The fundamental loop of the rich engine: short_interest += t.quantity
\* for a SELL, -= t.quantity for a BUY; no other class touches it and the
\* lite engine has no such variable.
ShortInterest(si, c, side, fs) ==
    IF variant = "rich" /\ c = "fund"
    THEN IF side = "SELL" THEN si + TradedQty(fs) ELSE si - TradedQty(fs)
    ELSE si

\* The loop over the trades an order of class c returned: tick_volume,
\* the class accumulator and short_interest; and the totals by class.
Account(c, order, fs) ==
    /\ tick_volume' = (tick_volume + TradedQty(fs)) % UINT32_MOD
    /\ stats' = StatsAdd(stats, c, order.side = "BUY", fs)
    /\ short_interest' = ShortInterest(short_interest, c, order.side, fs)
    /\ owner' = Append(owner, c)
    /\ window_volume' = window_volume + TradedQty(fs)
    /\ class_fills' =
         [k \in Classes |->
            class_fills[k] + (IF k = c THEN TradedQty(fs) ELSE 0)
            + RestingFilled(fs, owner, k)]
    /\ acted' = Append(acted, c)
    /\ UNCHANGED discarded

\* The class of the i-th agent to act in a tick: makers, then fundamental,
\* then noise, then momentum traders (config holds makers, fundamental,
\* momentum, noise in START's order).
ClassOfInConfigOrder(cfg, i) ==
    IF i <= cfg[1] THEN "make"
    ELSE IF i <= cfg[1] + cfg[2] THEN "fund"
    ELSE IF i <= cfg[1] + cfg[2] + cfg[3] THEN "mom"
    ELSE "noise"

ClassOf(cfg, i) ==
    IF i <= cfg[1] THEN "make"
    ELSE IF i <= cfg[1] + cfg[2] THEN "fund"
    ELSE IF i <= cfg[1] + cfg[2] + cfg[4] THEN "noise"
    ELSE "mom"

\* main, "1. Process User": the next user order is matched, and a TRADE
\* frame tagged USER is published when it was filled.
UserOrder ==
    /\ pc = "user"
    /\ user_orders # <<>>
    /\ LET u == Head(user_orders)
           order == Order(oid, time, u.price, ToUint32(u.quantity),
                          IF u.is_buy THEN "BUY" ELSE "SELL")
       IN  \E r \in add_order(order) :
             /\ Submit(order, r)
             /\ Account("user", order, r.fills)
             /\ frames' = IF TradedQty(r.fills) % UINT32_MOD > 0
                          THEN Append(frames,
                                      TradeFrame("USER", u.is_buy,
                                                 TradedQty(r.fills) % UINT32_MOD,
                                                 TradedValue(r.fills)))
                          ELSE frames
    /\ oid' = oid + 1
    /\ user_orders' = Tail(user_orders)
    /\ UNCHANGED <<scenVars, fundVars, variant, time, decayed, tapeVars, pc, chan, sent, is_paused,
                   scenario_signal, config, current_scen, tick_count, agent,
                   mid, stopRead>>

\* main, "2. Fast Sim": the rich engine advances time and reads the mid
\* with the last price as fallback; the lite engine takes the last price.
\* true_value *= std::exp(... * Z(gen)): the factor is any positive number,
\* so the new true_value is any positive number; `values` are the ones
\* the draw yields.
ObserveFrom(values) ==
    /\ pc = "user"
    /\ user_orders = <<>>
    /\ true_value' \in values
    /\ IF variant = "rich"
       THEN /\ time' = time + dt
            /\ mid' \in get_mid(last_traded_price)
       ELSE /\ time' = time
            /\ mid' = last_traded_price
    /\ pc' = "agents"
    /\ agent' = 1
    /\ UNCHANGED <<peak_price, current_scenario, fundVars, variant, bookVars, oid, histVars, tapeVars, chan, sent,
                   is_paused, scenario_signal, user_orders, config,
                   current_scen, tick_count, frames, stopRead, statVars,
                   ghostVars>>

\* The draws of the loop specifications leave the true value where it is.
Observe == ObserveFrom({SeedPrice})

\* void update_peak(double p) { if (p > peak_price) peak_price = p; }
update_peak(peak, p) == IF p > peak THEN p ELSE peak

\* One agent's act: it sleeps (nullopt) or returns an order, which is
\* matched at once.  Its draws decide side, price and size.  In the rich
\* engine a fundamental and a noise trader first raise the shared peak to
\* the mid they are handed, asleep or not.
AgentAct ==
    /\ pc = "agents"
    /\ agent <= NumAgents
    /\ peak_price' = IF variant = "rich"
                        /\ ClassOf(config, agent) \in {"fund", "noise"}
                     THEN update_peak(peak_price, mid)
                     ELSE peak_price
    /\ \/ /\ UNCHANGED <<bookVars, oid, histVars, statVars, owner,
                          window_volume, class_fills>>
          /\ acted' = Append(acted, ClassOf(config, agent))
          /\ UNCHANGED discarded
       \/ /\ oid <= MaxLoopOrders
          /\ \E side \in Sides, price \in Prices, quantity \in AgentQuantities :
               LET order == Order(oid, time, price, quantity, side)
               IN  \E r \in add_order(order) :
                     /\ Submit(order, r)
                     /\ Account(ClassOf(config, agent), order, r.fills)
          /\ oid' = oid + 1
          /\ UNCHANGED decayed
    /\ agent' = agent + 1
    /\ UNCHANGED <<true_value, current_scenario, fundVars, variant, time, tapeVars, pc, chan, sent, is_paused,
                   scenario_signal, user_orders, config, current_scen,
                   tick_count, mid, frames, stopRead>>

\* The end of a tick that does not broadcast: ++tick_count % 10 != 0.  The
\* lite engine advances time here.  The next iteration starts with a
\* fresh user_orders and scenario_signal = -1.
EndTick ==
    /\ pc = "agents"
    /\ agent > NumAgents
    /\ (tick_count + 1) % BroadcastEvery # 0
    /\ tick_count' = tick_count + 1
    /\ time' = IF variant = "lite" THEN time + dt ELSE time
    /\ pc' = "poll"
    /\ scenario_signal' = -1
    /\ user_orders' = <<>>
    /\ tick_volume' = 0
    /\ acted' = <<>>
    /\ UNCHANGED <<scenVars, fundVars, variant, bookVars, oid, histVars, tapeVars, chan, sent,
                   is_paused, config, current_scen, agent, mid, frames,
                   stopRead, stats, short_interest, owner, window_volume,
                   class_fills, discarded>>

\* The frames of a broadcast tick, in the order they are published.
PeriodicFramesDataFirst(m) ==
    <<Frame("DATA", last_traded_price, tick_volume),
      Frame("SENTIMENT", stats, 0)>>

\* A double that is a quotient, kept as <<numerator, denominator>> in
\* lowest terms with a positive denominator.
Abs(x) == IF x < 0 THEN -x ELSE x

RECURSIVE GCD(_, _)
GCD(a, b) == IF b = 0 THEN a ELSE GCD(b, a % b)

Quot(n, d) == <<n \div GCD(Abs(n), d), d \div GCD(Abs(n), d)>>

\* drawdown = (Agent::peak_price > 0)
\*              ? (Agent::peak_price - price) / Agent::peak_price : 0.0
drawdown(peak, price) ==
    IF peak > 0 THEN Quot(peak - price, peak) ELSE Quot(0, 1)

\* hype_val = PUMP_DUMP ? std::max(0.0, (0.9 - drawdown * 8.0) * 100.0) : 0.0
hype_val(scen, peak, price) ==
    IF scen = PUMP_DUMP
    THEN LET d == drawdown(peak, price)
             n == 90 * d[2] - 800 * d[1]
         IN  Quot(IF n > 0 THEN n ELSE 0, d[2])
    ELSE Quot(0, 1)

\* bubble_ratio = (price > true_value)
\*                 ? ((price - true_value) / true_value) * 100.0 : 0.0
bubble_ratio(price, tv) ==
    IF price > tv THEN Quot((price - tv) * 100, tv) ELSE Quot(0, 1)

\* panic_meter = SHORT_SQUEEZE ? std::min(100.0, bubble_ratio * 3.0) : 0.0
panic_meter(scen, bubble) ==
    IF scen = SHORT_SQUEEZE
    THEN IF 3 * bubble[1] > 100 * bubble[2]
         THEN Quot(100, 1) ELSE Quot(3 * bubble[1], bubble[2])
    ELSE Quot(0, 1)

\* broadcastScenarioMetrics(hype_val, bubble_ratio, short_interest,
\* panic_meter)
ScenarioMetricsFrame(scen, peak, price, tv, si) ==
    [kind |-> "SCENARIO_METRICS", a |-> hype_val(scen, peak, price),
     b |-> si, bubble |-> bubble_ratio(price, tv),
     panic |-> panic_meter(scen, bubble_ratio(price, tv))]

PeriodicFrames(m) ==
    IF variant = "rich"
    THEN <<Frame("SENTIMENT", stats, 0),
           ScenarioMetricsFrame(current_scen, peak_price, last_traded_price,
                                true_value, short_interest),
           Frame("DATA", last_traded_price, tick_volume),
           Frame("METRICS", m.spread, m.liquidity)>>
    ELSE <<Frame("SENTIMENT", stats, 0),
           Frame("DATA", last_traded_price, tick_volume)>>

\* "3. Throttled Broadcast": on every 10th tick decay runs, the periodic
\* frames are published, and the rich engine reads get_metrics.
EndTickBroadcast ==
    /\ pc = "agents"
    /\ agent > NumAgents
    /\ (tick_count + 1) % BroadcastEvery = 0
    /\ tick_count' = tick_count + 1
    /\ \E to_delete \in SUBSET DOMAIN active_orders :
         LET kept == decay(to_delete)
         IN  /\ active_orders' = kept
             /\ decayed' = decayed \cup to_delete
             /\ IF variant = "rich"
                THEN \E m \in MetricsOf(kept, askHeap, bidHeap) :
                       /\ askHeap' = m.askHeap
                       /\ bidHeap' = m.bidHeap
                       /\ ret' = [NoRet EXCEPT !.spread = m.spread,
                                               !.liquidity = m.liquidity,
                                               !.ask = m.ask, !.bid = m.bid]
                       /\ lastOp' = "get_metrics"
                       /\ frames' = frames \o PeriodicFrames(m)
                ELSE /\ UNCHANGED <<askHeap, bidHeap>>
                     /\ ret' = NoRet
                     /\ lastOp' = "decay"
                     /\ frames' = frames \o PeriodicFrames(NoRet)
    /\ lastOrder' = NoOrder
    /\ fills' = <<>>
    /\ time' = IF variant = "lite" THEN time + dt ELSE time
    /\ pc' = "poll"
    /\ scenario_signal' = -1
    /\ user_orders' = <<>>
    /\ stats' = [c \in Classes |-> AgentStats]
    /\ tick_volume' = 0
    /\ window_volume' = 0
    /\ acted' = <<>>
    /\ UNCHANGED <<scenVars, fundVars, variant, last_traded_price, oid, tapeVars, chan, sent,
                   is_paused, config, current_scen, agent, mid, stopRead,
                   short_interest, owner, class_fills, discarded>>

LoopNext ==
    \/ Send \/ WaitForStart \/ Recv \/ PollEmpty
    \/ UserOrder \/ Observe \/ AgentAct \/ EndTick \/ EndTickBroadcast

RichInit == BookInit /\ variant = "rich"
LiteInit == BookInit /\ variant = "lite"

SpecRich == RichInit /\ [][LoopNext]_vars
SpecLite == LiteInit /\ [][LoopNext]_vars

\* ------------------------------------------------- the command protocol
\* Both engines under a controller that sends every kind of command:
\* SCENARIO with arguments outside 0..2, with a non-numeric and a missing
\* argument, and a command the engine does not know.
CtlScenarioArgs == {-2, 0, 2}

CtlCommands ==
    {Cmd("START", 0, 0, 0, 0, c) : c \in Configs}
    \cup {Cmd(c, 0, 0, 0, 0, <<0, 0, 0, 0>>) :
            c \in {"STOP", "PAUSE", "RESUME", "HELLO"}}
    \cup {Cmd("SCENARIO", t, 0, 0, 0, <<0, 0, 0, 0>>) : t \in CtlScenarioArgs}
    \cup {Malformed("SCENARIO", f) : f \in {"text", "missing"}}
    \cup {Cmd("ORDER", 0, 0, 1, SeedPrice, <<0, 0, 0, 0>>)}

SendCtl == SendFrom(CtlCommands, MaxCtlCmds)

CtlNext ==
    \/ SendCtl \/ WaitForStart \/ Recv \/ PollEmpty
    \/ UserOrder \/ Observe \/ AgentAct \/ EndTick \/ EndTickBroadcast

SpecCtl == BookInit /\ [][CtlNext]_vars

\* Both engines under a controller that pauses, resumes and sends orders.
PauseCommands ==
    {Cmd("START", 0, 0, 0, 0, c) : c \in Configs}
    \cup {Cmd(c, 0, 0, 0, 0, <<0, 0, 0, 0>>) : c \in {"STOP", "PAUSE", "RESUME"}}
    \cup {Cmd("ORDER", 0, 0, 1, SeedPrice, <<0, 0, 0, 0>>)}

SendPause == SendFrom(PauseCommands, MaxPauseCmds)

PauseNext ==
    \/ SendPause \/ WaitForStart \/ Recv \/ PollEmpty
    \/ UserOrder \/ Observe \/ AgentAct \/ EndTick \/ EndTickBroadcast

SpecPause == BookInit /\ [][PauseNext]_vars

\* Both engines with a fundamental, a momentum and a noise trader and a
\* controller that sends orders and switches the scenario.
ClassConfigs == {<<0, 1, 1, 1>>}

ClassCommands ==
    {Cmd("START", 0, 0, 0, 0, c) : c \in ClassConfigs}
    \cup {Cmd("ORDER", 0, sd, 1, SeedPrice, <<0, 0, 0, 0>>) : sd \in {0, 1}}
    \cup {Cmd("SCENARIO", 1, 0, 0, 0, <<0, 0, 0, 0>>)}

SendClass == SendFrom(ClassCommands, MaxClassCmds)

ClassNext ==
    \/ SendClass \/ WaitForStart \/ Recv \/ PollEmpty
    \/ UserOrder \/ Observe \/ AgentAct \/ EndTick \/ EndTickBroadcast

SpecClass == BookInit /\ [][ClassNext]_vars

\* Both engines under a controller whose ORDER commands carry a quantity
\* that is not positive.
IntQuantities == {-1, 0}

UserCommands ==
    {Cmd("START", 0, 0, 0, 0, c) : c \in Configs}
    \cup {Cmd("ORDER", 0, sd, q, SeedPrice, <<0, 0, 0, 0>>) :
            sd \in {0, 1}, q \in IntQuantities}

SendUser == SendFrom(UserCommands, MaxUserCmds)

UserNext ==
    \/ SendUser \/ WaitForStart \/ Recv \/ PollEmpty
    \/ UserOrder \/ Observe \/ AgentAct \/ EndTick \/ EndTickBroadcast

SpecUser == BookInit /\ [][UserNext]_vars

\* Both engines under a controller whose ORDER commands carry a price
\* that is not positive.
UserPrices == {0, SeedPrice}

FloorCommands ==
    {Cmd("START", 0, 0, 0, 0, c) : c \in Configs}
    \cup {Cmd("ORDER", 0, sd, 1, p, <<0, 0, 0, 0>>) :
            sd \in {0, 1}, p \in UserPrices}

SendFloor == SendFrom(FloorCommands, MaxFloorCmds)

FloorNext ==
    \/ SendFloor \/ WaitForStart \/ Recv \/ PollEmpty
    \/ UserOrder \/ Observe \/ AgentAct \/ EndTick \/ EndTickBroadcast

SpecFloor == BookInit /\ [][FloorNext]_vars

\* Both engines under a controller that sends commands whose arguments are
\* missing or are not numbers, and a command the engine does not know.
BadCommands ==
    {Cmd("START", 0, 0, 0, 0, c) : c \in Configs}
    \cup {Malformed(c, f) : c \in {"ORDER", "SCENARIO"}, f \in {"text", "missing"}}
    \cup {Cmd(c, 0, 0, 0, 0, <<0, 0, 0, 0>>) : c \in {"HELLO"}}
    \cup {Cmd("SCENARIO", PUMP_DUMP, 0, 0, 0, <<0, 0, 0, 0>>)}

SendBad == SendFrom(BadCommands, MaxBadCmds)

BadNext ==
    \/ SendBad \/ WaitForStart \/ Recv \/ PollEmpty
    \/ UserOrder \/ Observe \/ AgentAct \/ EndTick \/ EndTickBroadcast

SpecBad == BookInit /\ [][BadNext]_vars

\* The rich engine with a noise trader, a true value that moves, and a
\* controller that sends orders and switches the scenario, also to an int
\* that names none.
ScenConfigs == {<<0, 0, 0, 1>>}
ScenArgs == {NORMAL, PUMP_DUMP, SHORT_SQUEEZE, 3}
TrueValues == {100, 199}

ScenCommands ==
    {Cmd("START", 0, 0, 0, 0, c) : c \in ScenConfigs}
    \cup {Cmd("SCENARIO", t, 0, 0, 0, <<0, 0, 0, 0>>) : t \in ScenArgs}
    \cup {Cmd("ORDER", 0, 0, 1, SeedPrice, <<0, 0, 0, 0>>)}

SendScen == SendFrom(ScenCommands, MaxScenCmds)

ObserveScen == ObserveFrom(TrueValues)

ScenNext ==
    \/ SendScen \/ WaitForStart \/ Recv \/ PollEmpty
    \/ UserOrder \/ ObserveScen \/ AgentAct \/ EndTick \/ EndTickBroadcast

SpecScen == RichInit /\ [][ScenNext]_vars

\* ------------------------------------------------ the fundamental trader
\* FundamentalTrader::act_with_market as a function of what it reads.  A
\* double that is a quotient is kept as Quot(n, d); belief_noise is in
\* percent.  Quantities are the ones the code computes (they are not
\* handed to the book here, so they keep their size).

\* my_fair_value = true_value * belief_noise;
\* if (current_scenario == SHORT_SQUEEZE) my_fair_value *= 0.95;
my_fair_value(v, scen, tv, belief) ==
    IF v = "rich" /\ scen = SHORT_SQUEEZE
    THEN Quot(tv * belief * 95, 10000)
    ELSE Quot(tv * belief, 100)

\* deviation = (current_market_price - my_fair_value) / my_fair_value
deviation(market, fair) == Quot(market * fair[2] - fair[1], fair[1])

\* q < c / 100, q > c / 100 for a quotient q and a number of hundredths c.
Below(q, c) == 100 * q[1] < c * q[2]
Above(q, c) == 100 * q[1] > c * q[2]

\* (uint32_t)(std::min(1.0, std::abs(deviation) / 0.02) * 400)
Aggression(dev) ==
    IF 50 * Abs(dev[1]) >= dev[2] THEN 400 ELSE (20000 * Abs(dev[1])) \div dev[2]

\* The NORMAL LOGIC of the rich engine: aggressiveness, qty and the price
\* (1 - aggressiveness) * fair + aggressiveness * (market * 0.998 or 1.002).
NormalOrder(id, t, market, fair, dev) ==
    LET a == IF 50 * Abs(dev[1]) >= dev[2] THEN Quot(1, 1)
             ELSE Quot(50 * Abs(dev[1]), dev[2])
        k == IF dev[1] > 0 THEN 499 ELSE 501
        own == Quot((a[2] - a[1]) * fair[1], a[2] * fair[2])
        mkt == Quot(a[1] * market * k, a[2] * 500)
    IN  Order(id, t,
              Quot(own[1] * mkt[2] + mkt[1] * own[2], own[2] * mkt[2]),
              50 + Aggression(dev),
              IF dev[1] > 0 THEN "SELL" ELSE "BUY")

\* The PUMP & DUMP LOGIC past its dead band: qty is 60% of
\* 50 + (|deviation| / 0.02) * 400, at least 20; a SELL is aggressive
\* (market * 0.99) or on the ladder (market * 1.005 .. 1.02).
Ladder == {1005, 1020}

PumpOrders(id, t, market, dev) ==
    LET q0 == 50 + (20000 * Abs(dev[1])) \div dev[2]
        q1 == (q0 * 6) \div 10
        qty == IF q1 < 20 THEN 20 ELSE q1
    IN  IF dev[1] > 0
        THEN {Order(id, t, Quot(market * 99, 100), qty, "SELL")}
             \cup {Order(id, t, Quot(market * l, 1000), qty, "SELL") : l \in Ladder}
        ELSE {Order(id, t, Quot(market * 99, 100), qty, "BUY")}

\* The orders act_with_market may return once it is awake; NoOrder stands
\* for std::nullopt.
RichOrders(scen, id, t, market, fair, dev) ==
    IF scen = PUMP_DUMP
    THEN IF Below(Quot(2 * Abs(dev[1]), dev[2]), 1)
         THEN {NoOrder} ELSE PumpOrders(id, t, market, dev)
    ELSE IF scen = SHORT_SQUEEZE /\ Above(dev, 15)
    THEN {Order(id, t, Quot(market * 102, 100), 5000, "BUY")}
    ELSE IF scen = SHORT_SQUEEZE /\ dev[1] > 0
    THEN {Order(id, t, Quot(market * 995, 1000), (50 + Aggression(dev)) * 3,
                "SELL")}
    ELSE {NormalOrder(id, t, market, fair, dev)}

LiteOrders(id, t, market, dev) ==
    IF Below(Quot(Abs(dev[1]), dev[2]), 1) THEN {NoOrder}
    ELSE IF dev[1] > 0
    THEN {Order(id, t, Quot(market * 99, 100), 300, "SELL")}
    ELSE {Order(id, t, Quot(market * 101, 100), 300, "BUY")}

\* next_act_time = time + (a positive draw); with dt = 60 the trader is
\* awake at the next call, or asleep at the next call and awake after it.
WakeDelays == {1, dt + 1}

\* act_with_market(true_value, current_market_price, time, id) of a trader
\* with tag scen, belief and wake time next: the order returned, the id
\* counter and the wake time it leaves.
act_with_market(v, scen, belief, next, tv, market, t, id) ==
    IF t < next
    THEN {[order |-> NoOrder, id |-> id, next_act_time |-> next]}
    ELSE LET fair == my_fair_value(v, scen, tv, belief)
             dev == deviation(market, fair)
             orders == IF v = "rich"
                       THEN RichOrders(scen, id, t, market, fair, dev)
                       ELSE LiteOrders(id, t, market, dev)
         IN  {[order |-> o, id |-> IF o = NoOrder THEN id ELSE id + 1,
               next_act_time |-> t + w] : o \in orders, w \in WakeDelays}

\* One fundamental trader called tick after tick, with the market price
\* it is handed and a true value that moves.
FundTrueValues == {160, 190, 199, 200, 201, 220}
Beliefs == {100}

FundConfig == <<0, 1, 0, 0>>

\* The engine between two ticks, started with one fundamental trader, in
\* any scenario the controller has set, with an empty book.
FundInit ==
    /\ variant \in Variants
    /\ active_orders = << >>
    /\ askHeap = {}
    /\ bidHeap = {}
    /\ last_traded_price = SeedPrice
    /\ time = 0
    /\ oid = 1
    /\ lastOp = "none"
    /\ lastOrder = NoOrder
    /\ fills = <<>>
    /\ ret = NoRet
    /\ decayed = {}
    /\ submitted = [s \in Sides |-> 0]
    /\ executed = [s \in Sides |-> 0]
    /\ traded = 0
    /\ tick_volume = 0
    /\ stats = [c \in Classes |-> AgentStats]
    /\ short_interest = 0
    /\ owner = <<>>
    /\ window_volume = 0
    /\ class_fills = [c \in Classes |-> 0]
    /\ acted = <<>>
    /\ discarded = 0
    /\ pc = "agents"
    /\ chan = <<>>
    /\ sent = 0
    /\ is_paused = FALSE
    /\ scenario_signal = -1
    /\ user_orders = <<>>
    /\ config = FundConfig
    /\ current_scen \in IF variant = "rich" THEN Scenarios ELSE {NORMAL}
    /\ tick_count = 0
    /\ agent = 2
    /\ mid = SeedPrice
    /\ frames = <<>>
    /\ stopRead = FALSE
    /\ peak_price = IF variant = "rich" /\ current_scen = PUMP_DUMP
                    THEN SeedPrice ELSE 0
    /\ true_value = SeedPrice
    /\ current_scenario = IF variant = "rich" THEN <<current_scen>> ELSE <<>>
    /\ belief_noise \in Beliefs
    /\ next_act_time = 0
    /\ returned = NoOrder

\* The scenario tag the trader reads (the lite trader has none).
FundTag == IF variant = "rich" THEN current_scenario[1] ELSE NORMAL

\* The start of a tick: time advances, the true value moves.
FundTick ==
    /\ pc = "agents"
    /\ agent = 2
    /\ tick_count < MaxFundTicks
    /\ tick_count' = tick_count + 1
    /\ time' = time + dt
    /\ true_value' \in FundTrueValues
    /\ agent' = 1
    /\ UNCHANGED <<variant, bookVars, oid, histVars, tapeVars, pc, chan, sent,
                   is_paused, scenario_signal, user_orders, config,
                   current_scen, mid, frames, stopRead, statVars, ghostVars,
                   peak_price, current_scenario, fundVars>>

\* The call a.act_with_market(true_value, mid, time, oid).
FundAct ==
    /\ pc = "agents"
    /\ agent = 1
    /\ \E r \in act_with_market(variant, FundTag, belief_noise, next_act_time,
                                 true_value, mid, time, oid) :
         /\ returned' = r.order
         /\ oid' = r.id
         /\ next_act_time' = r.next_act_time
    /\ peak_price' = IF variant = "rich" THEN update_peak(peak_price, mid)
                     ELSE peak_price
    /\ agent' = 2
    /\ UNCHANGED <<variant, bookVars, time, histVars, tapeVars, pc, chan, sent,
                   is_paused, scenario_signal, user_orders, config,
                   current_scen, tick_count, mid, frames, stopRead, statVars,
                   ghostVars, true_value, current_scenario, belief_noise>>

FundNext == FundTick \/ FundAct

SpecFund == FundInit /\ [][FundNext]_vars

\* =================================================================== claims
Live(side) ==
    {active_orders[i] : i \in {j \in DOMAIN active_orders :
                                   active_orders[j].side = side}}

Heaps == askHeap \cup bidHeap

\* C1: price-time priority.  No fill of an add_order call is made against a
\* resting order B while another order of B's side and price with a
\* strictly earlier timestamp is still in the active set.
C1_PriceTimePriority ==
    \A i \in DOMAIN fills :
        LET f == fills[i]
        IN  \A a \in DOMAIN f.active :
                ~ /\ f.active[a].side = f.best.side
                  /\ f.active[a].price = f.best.price
                  /\ f.active[a].timestamp < f.best.timestamp

\* One call fills A, which an earlier call had filled in part and pushed
\* back, and then B, which rests at A's price with a later timestamp.
C1_Witness ==
    /\ Len(fills) >= 2
    /\ fills[1].best.id # fills[2].best.id
    /\ fills[1].best.price = fills[2].best.price
    /\ fills[1].best.timestamp < fills[2].best.timestamp
    /\ fills[1].best.quantity \notin Quantities
    /\ fills[2].best.id \in DOMAIN fills[1].active

\* C2: the book is never crossed.  Whenever both heaps hold an entry (get_mid
\* does not return its fallback), the price on top of the bid heap is at
\* most the price on top of the ask heap.
C2_NeverCrossed ==
    (askHeap # {} /\ bidHeap # {}) =>
        \A a \in askTop(askHeap), b \in bidTop(bidHeap) : b.price <= a.price

\* get_mid has read two tops, one of them a stale entry left by decay.
C2_Witness ==
    /\ lastOp = "get_mid"
    /\ askHeap # {} /\ bidHeap # {}
    /\ ret.mid # ret.fallback
    /\ \E a \in askTop(askHeap) : a.id \in decayed

\* C3: active set and heaps agree.  Every live id has an entry in the heap
\* of its side, and every heap entry of a live id carries the price and
\* side of the active record and at most its quantity.
C3_ActiveHeapConsistent ==
    /\ \A i \in DOMAIN active_orders :
          \E e \in (IF active_orders[i].side = "BUY" THEN bidHeap ELSE askHeap) :
              e.id = i
    /\ \A e \in Heaps :
          e.id \in DOMAIN active_orders =>
              /\ e.price = active_orders[e.id].price
              /\ e.side = active_orders[e.id].side
              /\ e.quantity <= active_orders[e.id].quantity

\* decay has just erased an order and left another, filled in part, alive.
C3_Witness ==
    /\ lastOp = "decay"
    /\ \E e \in Heaps : e.id \in decayed
    /\ \E i \in DOMAIN active_orders :
          active_orders[i].quantity \notin Quantities

RECURSIVE FilledBefore(_, _)
FilledBefore(fs, i) ==
    IF i <= 1 THEN 0 ELSE fs[i - 1].trade.quantity + FilledBefore(fs, i - 1)

\* C4: the matching rule.  Every Trade is at the resting order's price for
\* min(resting remaining, incoming remaining), never worse than the
\* incoming limit; and on return the incoming order is filled or no live
\* contra order crosses its limit.
C4_MatchingRule ==
    lastOp = "add_order" =>
        /\ \A i \in DOMAIN fills :
              LET f == fills[i]
                  resting == f.active[f.best.id]
              IN  /\ f.incoming = lastOrder.quantity - FilledBefore(fills, i)
                  /\ f.trade.price = resting.price
                  /\ f.trade.quantity = Min(resting.quantity, f.incoming)
                  /\ resting.side # lastOrder.side
                  /\ IF lastOrder.side = "BUY"
                     THEN f.trade.price <= lastOrder.price
                     ELSE f.trade.price >= lastOrder.price
        /\ ret.residual = lastOrder.quantity - FilledBefore(fills, Len(fills) + 1)
        /\ \/ ret.residual = 0
           \/ IF lastOrder.side = "BUY"
              THEN \A o \in Live("SELL") : o.price > lastOrder.price
              ELSE \A o \in Live("BUY") : o.price < lastOrder.price

\* An order consumed two resting orders, and what is left of it stopped at
\* a live contra order that does not cross its limit.
C4_Witness ==
    /\ lastOp = "add_order"
    /\ Len(fills) >= 2
    /\ ret.residual > 0
    /\ Live(Contra(lastOrder.side)) # {}

\* C5: volume conservation over add_order calls.  What BUY orders lost to
\* fills equals what SELL orders lost, both equal the Trades' total, and
\* per side submitted = executed + live remaining; a residual rests with
\* exactly the unfilled quantity.
C5_VolumeConserved ==
    /\ executed["BUY"] = executed["SELL"]
    /\ executed["BUY"] = traded
    /\ \A side \in Sides :
          submitted[side] = executed[side] + LiveQty(active_orders, side)
    /\ (lastOp = "add_order" /\ ret.residual > 0) =>
          /\ lastOrder.id \in DOMAIN active_orders
          /\ active_orders[lastOrder.id].quantity = ret.residual
          /\ ret.residual = lastOrder.quantity - TradedQty(fills)

\* Orders have traded on both sides, one call left a residual after fills.
C5_Witness ==
    /\ traded >= 2
    /\ lastOp = "add_order"
    /\ Len(fills) >= 1
    /\ ret.residual > 0
    /\ Live("BUY") # {} /\ Live("SELL") # {}

\* The lowest live ask price and the highest live bid price.
BestAskPrice == CHOOSE p \in {o.price : o \in Live("SELL")} :
                    \A o \in Live("SELL") : p <= o.price
BestBidPrice == CHOOSE p \in {o.price : o \in Live("BUY")} :
                    \A o \in Live("BUY") : p >= o.price

\* C6: get_mid uses live orders only.  It returns the half-sum of the best
\* live bid and ask prices, and the fallback when a side has no live order.
C6_MidFromLiveOrders ==
    lastOp = "get_mid" =>
        ret.mid = IF Live("SELL") # {} /\ Live("BUY") # {}
                  THEN (BestAskPrice + BestBidPrice) \div 2
                  ELSE ret.fallback

\* The best live order of a side in price-time order.
BestLive(side) ==
    {o \in Live(side) :
        \A x \in Live(side) :
            \/ (IF side = "SELL" THEN o.price < x.price ELSE o.price > x.price)
            \/ (o.price = x.price /\ o.timestamp <= x.timestamp)}

\* C7: get_metrics reports the live top of book: the spread of the best live
\* prices and the sum of the best live orders' remaining quantities, and
\* (0, 0) when a side has no live order.
C7_MetricsFromLiveTop ==
    lastOp = "get_metrics" =>
        IF Live("SELL") # {} /\ Live("BUY") # {}
        THEN /\ ret.spread = BestAskPrice - BestBidPrice
             /\ \E a \in BestLive("SELL"), b \in BestLive("BUY") :
                    ret.liquidity = a.quantity + b.quantity
        ELSE ret.spread = 0 /\ ret.liquidity = 0

\* C8: a decayed order never trades.  After decay has erased an id, no fill
\* is made against it, get_metrics never reads it, it never returns to the
\* active set, and its heap entry is never pushed or rewritten.
C8_DecayedNeverTrades ==
    [][/\ \A i \in DOMAIN fills' : fills'[i].best.id \notin decayed
       /\ ret'.ask.id \notin decayed
       /\ ret'.bid.id \notin decayed
       /\ decayed \cap DOMAIN active_orders' = {}
       /\ \A e \in askHeap' \cup bidHeap' : e.id \in decayed => e \in Heaps]_vars

\* An add_order call has popped a decayed entry and traded with the live
\* order behind it.
C8_Witness ==
    /\ lastOp = "add_order"
    /\ Len(fills) >= 1
    /\ \E d \in decayed :
          /\ \A e \in Heaps : e.id # d
          /\ d \notin DOMAIN fills[1].active
          /\ d < fills[1].best.id

\* What a tick changes: the book, the id counter, simulation time, the tick
\* counter and the frames published.
tickVars == <<bookVars, oid, time, tick_count, frames>>

\* C9: in the rich engine, the poll that reads STOP ends the loop, and from
\* then on no order is matched, time does not advance and no frame is
\* published; also when the engine was paused when STOP arrived.
C9_StopEndsRichLoop ==
    [][stopRead' => (pc' = "done" /\ UNCHANGED tickVars)]_vars

\* STOP was read while the engine was paused, after at least one tick.
C9_Witness ==
    /\ variant = "rich"
    /\ stopRead
    /\ is_paused
    /\ pc = "done"
    /\ tick_count > 0

\* C10: in the lite engine, once the poll has read STOP the loop has ended
\* and no further tick is executed (no matching, no time advance, no frame).
C10_StopEndsLiteLoop ==
    [][stopRead => (pc = "done" /\ UNCHANGED tickVars)]_vars

\* C11: only STOP halts the loop: in both engines the step that ends the
\* loop is the receipt of a STOP command, whatever else was received.
C11_OnlyStopHalts ==
    [][(pc # "done" /\ pc' = "done") =>
         (chan # <<>> /\ Head(chan).cmd = "STOP")]_vars

\* The simulation state a tick writes, statistics included.
simVars == <<tickVars, statVars>>

\* The Order main builds from a collected user order.
OrderOf(u, id, ts) ==
    Order(id, ts, u.price, ToUint32(u.quantity),
          IF u.is_buy THEN "BUY" ELSE "SELL")

C13_StartHandshake ==
    [][pc = "start" =>
         /\ UNCHANGED <<simVars, user_orders, scenario_signal, current_scen,
                        is_paused, stopRead>>
         /\ frames = <<>> /\ tick_count = 0
         /\ IF chan # <<>> /\ Head(chan).cmd = "START"
            THEN pc' = "poll" /\ config' = Head(chan).config /\ ~is_paused'
            ELSE pc' = "start" /\ config' = config]_vars

\* The engine has started after throwing a command away.
C13_Witness ==
    /\ pc = "poll"
    /\ discarded > 0
    /\ config \in Configs
    /\ ~is_paused
    /\ tick_count = 0
    /\ frames = <<>>

\* The place of a class in a tick.
Rank(c) ==
    IF c = "user" THEN 0 ELSE IF c = "make" THEN 1 ELSE IF c = "fund" THEN 2
    ELSE IF c = "noise" THEN 3 ELSE 4

Count(seq, c) == Cardinality({i \in DOMAIN seq : seq[i] = c})

Published == SubSeq(frames', Len(frames) + 1, Len(frames'))

Kinds(fs) == [i \in DOMAIN fs |-> fs[i].kind]

\* C15: the periodic block runs at the end of exactly the ticks whose count
\* is a multiple of 10: there decay runs, the frames SENTIMENT,
\* SCENARIO_METRICS, DATA, METRICS (rich) or SENTIMENT, DATA (lite) are
\* published in this order and the accumulators are reset; at the end of
\* any other tick, and within a tick, none of this happens.
C15_ThrottledBroadcast ==
    [][/\ Len(frames') >= Len(frames)
       /\ SubSeq(frames', 1, Len(frames)) = frames
       /\ IF tick_count' # tick_count /\ tick_count' % 10 = 0
          THEN /\ Kinds(Published) =
                    IF variant = "rich"
                    THEN <<"SENTIMENT", "SCENARIO_METRICS", "DATA", "METRICS">>
                    ELSE <<"SENTIMENT", "DATA">>
               /\ lastOp' = IF variant = "rich" THEN "get_metrics" ELSE "decay"
               /\ decayed \subseteq decayed'
               /\ DOMAIN active_orders' = DOMAIN active_orders \ decayed'
               /\ \A c \in Classes : stats'[c] = AgentStats
          ELSE /\ \A i \in DOMAIN Published : Published[i].kind = "TRADE"
               /\ decayed' = decayed
               /\ lastOp' # lastOp => lastOp' = "add_order"
               /\ \A c \in Classes :
                    stats[c] # AgentStats => stats'[c] # AgentStats]_vars

\* The tenth tick of the rich engine has ended: decay erased an order and
\* the four frames went out, SENTIMENT with an accumulator that was not 0.
C15_Witness ==
    /\ variant = "rich"
    /\ tick_count = 10
    /\ decayed # {}
    /\ Len(frames) >= 4
    /\ frames[Len(frames)].kind = "METRICS"
    /\ frames[Len(frames) - 3].a # [c \in Classes |-> AgentStats]

\* C16: the volume of every DATA frame is the quantity of all fills since
\* the previous DATA frame, over all ticks of the window.
C16_DataVolumeOfWindow ==
    [][\A i \in DOMAIN Published :
         Published[i].kind = "DATA" => Published[i].b = window_volume]_vars

\* buy_vol + sell_vol of class c over the SENTIMENT frames in fs.
RECURSIVE SentimentSum(_, _)
SentimentSum(fs, c) ==
    IF fs = <<>> THEN 0
    ELSE (IF Head(fs).kind = "SENTIMENT"
          THEN Head(fs).a[c].buy_vol + Head(fs).a[c].sell_vol ELSE 0)
         + SentimentSum(Tail(fs), c)

\* C17: the accumulators are zero right after a broadcast tick, and for
\* every class the buy_vol and sell_vol of all SENTIMENT frames plus the
\* current accumulators make up the quantity of all fills of the class's
\* orders, as the incoming or as the resting side.
C17_SentimentAccounting ==
    /\ (pc = "poll" /\ tick_count > 0 /\ tick_count % 10 = 0) =>
         \A c \in Classes : stats[c] = AgentStats
    /\ \A c \in Classes :
         SentimentSum(frames, c) + stats[c].buy_vol + stats[c].sell_vol
           = class_fills[c]

\* C18: in the rich engine short_interest moves only when an order of a
\* fundamental trader is matched on submission: up by the quantity filled
\* for a SELL, down by it for a BUY; orders of users and other agents,
\* fills of resting orders, decay and a scenario switch leave it alone.
C18_ShortInterest ==
    [][variant = "rich" =>
         short_interest' = short_interest +
            (IF oid' # oid /\ owner'[oid] = "fund"
             THEN IF lastOrder'.side = "SELL"
                  THEN TradedQty(fills') ELSE 0 - TradedQty(fills')
             ELSE 0)]_vars

\* A fundamental trader's SELL was filled against a noise trader's
\* resting BUY, and a later poll has just switched the scenario.
C18_Witness ==
    /\ variant = "rich"
    /\ owner = <<"noise", "fund">>
    /\ class_fills["noise"] = 1
    /\ short_interest = 1
    /\ pc = "user"
    /\ scenario_signal = 1
    /\ current_scen = 1

\* C19: a user order that obtained a fill is followed by exactly one TRADE
\* frame tagged USER, whose qty is the sum of the fill quantities and whose
\* price times qty is the sum of price * quantity over the fills; a user
\* order without a fill publishes nothing, and no other step publishes a
\* TRADE frame.
C19_TradeFrames ==
    [][IF pc = "user" /\ oid' # oid
       THEN IF fills' # <<>>
            THEN /\ Len(Published) = 1
                 /\ Published[1].kind = "TRADE"
                 /\ Published[1].agent = "USER"
                 /\ Published[1].a = (lastOrder'.side = "BUY")
                 /\ Published[1].b = TradedQty(fills')
                 /\ Published[1].price[1] * Published[1].b
                      = TradedValue(fills') * Published[1].price[2]
            ELSE Published = <<>>
       ELSE \A i \in DOMAIN Published : Published[i].kind # "TRADE"]_vars

\* C20: a user ORDER whose quantity is zero or negative is dropped: it
\* produces no trade, changes no resting order and does not rest.
C20_NonPositiveQuantityDropped ==
    [][(pc = "user" /\ oid' # oid /\ Head(user_orders).quantity <= 0) =>
         (fills' = <<>> /\ UNCHANGED <<active_orders, askHeap, bidHeap>>)]_vars

\* C21: every order handed to the book, by an agent or from a user ORDER
\* of any price, has a price of at least 0.01; every order in the active
\* set has a quantity of at least 1; every trade price and the last
\* traded price are at least 0.01.
C21_PriceFloor ==
    /\ lastOrder # NoOrder => lastOrder.price >= MinPrice
    /\ \A id \in DOMAIN active_orders :
         /\ active_orders[id].price >= MinPrice
         /\ active_orders[id].quantity >= 1
    /\ \A i \in DOMAIN fills : fills[i].trade.price >= MinPrice
    /\ last_traded_price >= MinPrice

\* The first tokens checkCommands knows.
KnownCommands == {"STOP", "PAUSE", "RESUME", "SCENARIO", "ORDER"}

\* C22: a command the poll receives whose arguments are missing or not
\* numbers, or whose first token is unknown, has no effect: it adds no
\* user order, it leaves the scenario the poll will return (and so the
\* current scenario) as it was, and it does not pause, resume or stop.
C22_MalformedIgnored ==
    [][(pc = "poll" /\ chan # <<>>
          /\ (Head(chan).form # "ok" \/ Head(chan).cmd \notin KnownCommands)) =>
         UNCHANGED <<user_orders, scenario_signal, current_scen, is_paused,
                     pc>>]_vars

\* C23: in the rich engine, whatever ints the SCENARIO commands carried,
\* the loop's current scenario and every agent's scenario tag are Normal,
\* Pump_Dump or Short_Squeeze, and once a poll has returned every agent's
\* tag equals the loop's current scenario.
C23_ScenarioDomain ==
    /\ current_scen \in Scenarios
    /\ \A i \in DOMAIN current_scenario : current_scenario[i] \in Scenarios
    /\ pc \in {"user", "agents"} =>
         \A i \in DOMAIN current_scenario : current_scenario[i] = current_scen

\* The agents' tags follow the loop's scenario (the part of C23 that does
\* not depend on the int's range).
TagsFollowLoop ==
    \A i \in DOMAIN current_scenario : current_scenario[i] = current_scen

\* The deviation the trader computes in this state, and whether it is
\* awake.
FundDeviation ==
    deviation(mid, my_fair_value(variant, FundTag, true_value, belief_noise))

FundAwake == pc = "agents" /\ agent = 1 /\ ~(time < next_act_time)

\* C24: a fundamental trader that wakes in the Normal scenario (in both
\* engines) with |market - fair| / fair < 1% returns no order and leaves
\* the id counter alone.
C24_NormalDeadBand ==
    [][(FundAwake /\ FundTag = NORMAL
          /\ Below(Quot(Abs(FundDeviation[1]), FundDeviation[2]), 1)) =>
         (returned' = NoOrder /\ oid' = oid)]_vars

\* The same for the lite engine alone.
LiteDeadBand ==
    [][(variant = "lite" /\ FundAwake
          /\ Below(Quot(Abs(FundDeviation[1]), FundDeviation[2]), 1)) =>
         (returned' = NoOrder /\ oid' = oid)]_vars

\* C25: under Short_Squeeze a fundamental trader that wakes with a
\* deviation <= 0 returns no order; the orders it returns are the BUY of
\* 5000 when the deviation is above 15% and a SELL when it is above 0 and
\* at most 15%.
C25_SqueezeOrders ==
    [][(variant = "rich" /\ FundAwake /\ FundTag = SHORT_SQUEEZE) =>
         IF FundDeviation[1] <= 0 THEN returned' = NoOrder /\ oid' = oid
         ELSE IF Above(FundDeviation, 15)
         THEN returned'.side = "BUY" /\ returned'.quantity = 5000
         ELSE returned'.side = "SELL"]_vars

\* The part of C25 for a positive deviation.
SqueezeOverpriced ==
    [][(variant = "rich" /\ FundAwake /\ FundTag = SHORT_SQUEEZE
          /\ FundDeviation[1] > 0) =>
         IF Above(FundDeviation, 15)
         THEN returned'.side = "BUY" /\ returned'.quantity = 5000
         ELSE returned'.side = "SELL"]_vars

\* The step in which main takes the SCENARIO command of this poll.
ScenarioApplied == pc = "poll" /\ pc' = "user" /\ scenario_signal >= 0

\* C26: in the rich engine a SCENARIO command clears the shared peak to 0
\* when, and only when, it moves the scenario from Pump_Dump to another
\* one; any other SCENARIO command leaves the peak as it was; and between
\* SCENARIO commands the peak never decreases.
C26_PeakCleared ==
    [][IF ScenarioApplied
       THEN IF current_scen = PUMP_DUMP /\ scenario_signal # PUMP_DUMP
            THEN peak_price' = 0
            ELSE peak_price' = peak_price
       ELSE peak_price' >= peak_price]_vars

\* The parts of C26 that do not depend on where the scenario comes from:
\* leaving Pump_Dump clears the peak, entering Pump_Dump keeps it, and no
\* other step lowers it.
PeakOutsideSwitch ==
    [][IF ScenarioApplied
       THEN /\ (current_scen = PUMP_DUMP /\ scenario_signal # PUMP_DUMP) =>
                 peak_price' = 0
            /\ scenario_signal = PUMP_DUMP => peak_price' = peak_price
       ELSE peak_price' >= peak_price]_vars

\* A quotient lies in lo .. hi.
Within(q, lo, hi) == lo * q[2] <= q[1] /\ q[1] <= hi * q[2]

\* drawdown = max(0, (peak - price) / peak), 0 without a peak.
ClampedDrawdown(peak, price) ==
    IF peak > 0 /\ peak > price THEN Quot(peak - price, peak) ELSE Quot(0, 1)

\* max(0, (0.9 - 8 * dd) * 100)
HypeOf(dd) ==
    IF 90 * dd[2] > 800 * dd[1]
    THEN Quot(90 * dd[2] - 800 * dd[1], dd[2]) ELSE Quot(0, 1)

\* C27: in every SCENARIO_METRICS frame of the rich engine, hype is 0
\* unless the scenario is Pump_Dump, where it is max(0, (0.9 - 8 *
\* drawdown) * 100) with drawdown = max(0, (peak - price) / peak), and so
\* lies in [0, 90]; panic is 0 unless the scenario is Short_Squeeze, where
\* it is min(100, 3 * bubble_ratio), and lies in [0, 100]; bubble_ratio
\* is never negative.
C27_ScenarioMetricsBounds ==
    [][\A i \in DOMAIN Published :
         Published[i].kind = "SCENARIO_METRICS" =>
           LET f == Published[i]
           IN  /\ f.a = IF current_scen = PUMP_DUMP
                         THEN HypeOf(ClampedDrawdown(peak_price,
                                                     last_traded_price))
                         ELSE Quot(0, 1)
               /\ Within(f.a, 0, 90)
               /\ f.panic = IF current_scen = SHORT_SQUEEZE
                             THEN panic_meter(SHORT_SQUEEZE, f.bubble)
                             ELSE Quot(0, 1)
               /\ Within(f.panic, 0, 100)
               /\ f.bubble[1] >= 0]_vars

\* The parts of C27 about panic and bubble_ratio.
PanicAndBubble ==
    [][\A i \in DOMAIN Published :
         Published[i].kind = "SCENARIO_METRICS" =>
           LET f == Published[i]
           IN  /\ current_scen # PUMP_DUMP => f.a = Quot(0, 1)
               /\ f.a[1] >= 0
               /\ f.panic = IF current_scen = SHORT_SQUEEZE
                             THEN panic_meter(SHORT_SQUEEZE, f.bubble)
                             ELSE Quot(0, 1)
               /\ Within(f.panic, 0, 100)
               /\ f.bubble[1] >= 0]_vars

\* The heap entries of order id on the side it rests on.
EntriesOf(id) ==
    {e \in (IF active_orders[id].side = "BUY" THEN bidHeap ELSE askHeap) :
       e.id = id}

\* C28: after any add_order and decay calls with unique order ids, each id
\* in the active set has exactly one entry in its side's heap, and that
\* entry is the active-set order, quantity included; so an order filled in
\* part is never matched or reported twice.
C28_SingleHeapEntry ==
    \A id \in DOMAIN active_orders : EntriesOf(id) = {active_orders[id]}

\* add_order has just filled a resting order in part, which rests with
\* its reduced quantity, in a book from which decay has erased an order.
C28_Witness ==
    /\ lastOp = "add_order"
    /\ Len(fills) = 1
    /\ fills[1].best.id \in DOMAIN active_orders
    /\ fills[1].best.id \in DOMAIN fills[1].active
    /\ fills[1].best.quantity < UINT32_MAX
    /\ active_orders[fills[1].best.id].quantity
         = fills[1].best.quantity - fills[1].trade.quantity
    /\ decayed # {}

====
